---- MODULE Spec2Model ----
(***************************************************************************)
(* A state-machine model of the tuicpp terminal widget toolkit             *)
(* (src/tuicpp.hpp): the SelectionWindow and FieldEditor modal loops, the  *)
(* built-in string edit strategy (Tyielder<std::string>) and the Table     *)
(* renderer's layout state.  Strings are sequences of character codes.     *)
(* Each widget has its own specification (SpecSel, SpecFE, SpecYielder,    *)
(* SpecTable); a specification leaves the other widgets unconstructed.     *)
(***************************************************************************)
EXTENDS Integers, Sequences, FiniteSets, TLC

(* ------------------------------ bounds -------------------------------- *)

\* largest option list of a SelectionWindow
MaxOptions == 3

\* keys read by one SelectionWindow::yield call
MaxKeys == 5

\* yield calls on one widget instance
MaxYields == 2

\* largest field list of a FieldEditor
MaxFields == 2

\* keys read by the FieldEditor::yield calls of one instance
MaxFieldKeys == 4

\* longest initial content of a bound std::string
MaxStr == 2

\* proc calls made on one string edit strategy
MaxProcs == 2

\* most columns (headers) of a Table
MaxCols == 2

\* most rows of a Table's data
MaxRows == 2

(* ----------------------- key codes (ncurses.h) ------------------------ *)

KEY_DOWN == 258

KEY_UP == 259

KEY_LEFT == 260

KEY_BACKSPACE == 263

KeyEnter == 10

KeyEscape == 27

KeyTab == 9

KeyNul == 0

KeyCtrlA == 1

KeyA == 97

KeyB == 98

Max(a, b) == IF a >= b THEN a ELSE b

Min(a, b) == IF a <= b THEN a ELSE b

VARIABLES
    \* ---- SelectionWindow ----
    s_pc,           \* "none" | "constructed" | "loop" (blocked in getc) | "returned"
    option_multi,   \* _option.multi
    size,           \* _option_list.size()
    line,           \* _line
    terminate,      \* _terminate
    selected,       \* the caller's Selection set bound to yield's reference parameter
    s_ret,          \* value returned by the last yield call ("none" before any return)
    s_calls,        \* number of yield calls made so far
    s_keys,         \* history: keys read by the current yield call
    s_trace         \* history: <<_line, selected, _terminate>> at the entry of the
                    \* current yield call and after each of its keys

    ,
    \* ---- FieldEditor ----
    f_pc,           \* "none" | "constructed" | "loop" (blocked in getc) | "returned" | "crashed"
    nfields,        \* _fields.size()
    quit,           \* _quit
    escape,         \* _escape
    field,          \* yield's local `field`, the focus index
    value,          \* value[i]: the caller's std::string bound to field i's yielder
    f_ret,          \* value returned by the last yield call ("none" before any return)
    f_calls,        \* number of yield calls made so far
    f_nkeys,        \* number of keys read so far
    f_key,          \* history: <<c>> for the last key c read by the current call, else <<>>
    f_prev,         \* history: field, quit, escape, value as they were before that key
    f_proc          \* history: the field whose proc that key was passed to, or -1
    ,
    \* ---- Tyielder<std::string> on its own ----
    y_pc,           \* "none" | "bound"
    y_value,        \* *value
    y_keys,         \* history: the keys passed to proc so far
    y_trace,        \* history: *value before the first proc and after each
    y_rets          \* history: what each proc returned
    ,
    \* ---- Table<T> ----  (a string is modelled by its length: layout reads
    \*                      nothing else of a header or a generated cell)
    t_pc,           \* "none" | "constructed"
    headers,        \* _headers: the length of each header string
    data,           \* _data: each row d is the sequence of its cells' base lengths
    generator,      \* _generator: "plain" | "wide" (see Generate)
    lengths,        \* _lengths
    main_size,      \* height and width of the surface _main
    t_supplied,     \* history: the caller supplied widths (From.lengths or set_lengths)
    t_op,           \* history: the last operation
    t_auto,         \* history: that operation's auto_resize argument
    t_drawn         \* history: the size _main had when that operation ran _write_table
    ,
    \* ---- SelectionWindow, what the terminal shows ----
    s_rows,         \* per option row: "blank" | "normal" | "reverse"
    s_ok,           \* "[ OK ]": "blank" | "normal" | "reverse"
    \* ---- FieldEditor, what the terminal shows ----
    f_info,         \* info (height, width) of the editor
    f_label,        \* _fields[i].size(): every label padded to the longest + 2
    shown,          \* per field, the content its line shows after the label
    f_cursor,       \* the cursor of _main (row, col)
    f_curs,         \* cursor visibility as last set by curs_set
    ok_reverse,     \* "[ OK ]" is drawn inverse-video
    f_redrawn,      \* history: the fields the last step ran _update_field on
    \* ---- PlainWindow / BoxedWindow / DecoratedWindow ----
    l_pc,           \* "none" | "alive" | "destroyed"
    l_kind,         \* "plain" | "boxed" | "decorated"
    l_info,         \* Window::info
    wins,           \* the surfaces newwin has returned, by handle: geometry, and
                    \* whether the surface is still allocated
    l_main,         \* _main (a handle; 0 is the null pointer)
    l_box,          \* _box
    l_title,        \* _title
    l_op,           \* history: the last operation
    l_log           \* history: the surface calls that operation made, in order

svars == <<s_pc, option_multi, size, line, terminate, selected, s_ret, s_calls,
           s_keys, s_trace, s_rows, s_ok>>

fvars == <<f_pc, nfields, quit, escape, field, value, f_ret, f_calls, f_nkeys,
           f_key, f_prev, f_proc, f_info, f_label, shown, f_cursor, f_curs,
           ok_reverse, f_redrawn>>

yvars == <<y_pc, y_value, y_keys, y_trace, y_rets>>

tvars == <<t_pc, headers, data, generator, lengths, main_size, t_supplied,
           t_op, t_auto, t_drawn>>

lvars == <<l_pc, l_kind, l_info, wins, l_main, l_box, l_title, l_op, l_log>>

vars == <<svars, fvars, yvars, tvars, lvars>>

(* ========================== SelectionWindow =========================== *)

\* keys the blocking read hands to SelectionWindow::_handle_key
SelKeys == {KEY_UP, KEY_DOWN, KeyEnter, KeyEscape, KeyA}

\* a faulty _handle_key: the multi-select toggle inserts and never erases
HandleKey_NoErase(c, ln, sel, term) ==
    LET l1 == IF c = KEY_UP THEN ln - 1 ELSE ln
        l2 == IF c = KEY_DOWN THEN l1 + 1 ELSE l1
        l3 == IF option_multi THEN Max(0, Min(l2, size))
                              ELSE Max(0, Min(l2, size - 1))
        t1 == IF c = KeyEscape THEN TRUE ELSE term
    IN  IF c # KeyEnter
          THEN [line |-> l3, selected |-> sel, terminate |-> t1]
        ELSE IF ~option_multi
          THEN [line |-> l3, selected |-> sel \cup {l3}, terminate |-> TRUE]
        ELSE IF l3 = size
          THEN [line |-> l3, selected |-> sel, terminate |-> TRUE]
          ELSE [line |-> l3, selected |-> sel \cup {l3}, terminate |-> t1]

\* a faulty _handle_key: the OK test compares _line with size - 1
HandleKey_OkOffByOne(c, ln, sel, term) ==
    LET l1 == IF c = KEY_UP THEN ln - 1 ELSE ln
        l2 == IF c = KEY_DOWN THEN l1 + 1 ELSE l1
        l3 == IF option_multi THEN Max(0, Min(l2, size))
                              ELSE Max(0, Min(l2, size - 1))
        t1 == IF c = KeyEscape THEN TRUE ELSE term
    IN  IF c # KeyEnter
          THEN [line |-> l3, selected |-> sel, terminate |-> t1]
        ELSE IF ~option_multi
          THEN [line |-> l3, selected |-> sel \cup {l3}, terminate |-> TRUE]
        ELSE IF l3 = size - 1
          THEN [line |-> l3, selected |-> sel, terminate |-> TRUE]
        ELSE IF l3 \notin sel
          THEN [line |-> l3, selected |-> sel \cup {l3}, terminate |-> t1]
          ELSE [line |-> l3, selected |-> sel \ {l3}, terminate |-> t1]

\* SelectionWindow::_handle_key(c, selected): the new _line, selected, _terminate
HandleKey(c, ln, sel, term) ==
    LET l1 == IF c = KEY_UP THEN ln - 1 ELSE ln
        l2 == IF c = KEY_DOWN THEN l1 + 1 ELSE l1
        l3 == IF option_multi THEN Max(0, Min(l2, size))
                              ELSE Max(0, Min(l2, size - 1))
        t1 == IF c = KeyEscape THEN TRUE ELSE term
    IN  IF c # KeyEnter
          THEN [line |-> l3, selected |-> sel, terminate |-> t1]
        ELSE IF ~option_multi
          THEN [line |-> l3, selected |-> sel \cup {l3}, terminate |-> TRUE]
        ELSE IF l3 = size
          THEN [line |-> l3, selected |-> sel, terminate |-> TRUE]
        ELSE IF l3 \notin sel
          THEN [line |-> l3, selected |-> sel \cup {l3}, terminate |-> t1]
          ELSE [line |-> l3, selected |-> sel \ {l3}, terminate |-> t1]

\* a faulty highlight test: the hovered row only
Highlighted_HoverOnly(i, ln, sel) == i = ln

\* the loop's test for printing option row i inverse-video
Highlighted(i, ln, sel) == i \in sel \/ i = ln

\* the option rows after the loop has reprinted them
RenderRows(ln, sel) ==
    [i \in 1..size |-> IF Highlighted(i - 1, ln, sel) THEN "reverse" ELSE "normal"]

\* "[ OK ]" after the loop's `if (_option.multi) _print_ok(_line == size)`
RenderOk(ln, old) ==
    IF option_multi THEN (IF ln = size THEN "reverse" ELSE "normal") ELSE old

\* a faulty return expression: selected.size() >= 0
YieldResult_Always(sel) == Cardinality(sel) >= 0

\* SelectionWindow::yield's return expression
YieldResult(sel) == Cardinality(sel) > 0

\* SelectionWindow(title, info, option_list, option): the state after construction
SelConstructed ==
    /\ s_pc = "constructed"
    /\ option_multi \in BOOLEAN
    /\ size \in 0..MaxOptions
    /\ line = 0
    /\ terminate = FALSE
    /\ selected = {}
    /\ s_ret = "none"
    /\ s_calls = 0
    /\ s_keys = <<>>
    /\ s_trace = <<>>
    /\ s_rows = [i \in 1..size |-> "blank"]
    /\ s_ok = "blank"

\* yield(selected) is entered with the caller's set `sel`: it returns at once when
\* _terminate is already set, and otherwise renders and blocks in getc()
SelYield(sel) ==
    /\ s_pc \in {"constructed", "returned"}
    /\ s_calls < MaxYields
    /\ s_calls' = s_calls + 1
    /\ selected' = sel
    /\ s_keys' = <<>>
    /\ s_trace' = <<[line |-> line, selected |-> sel, terminate |-> terminate]>>
    /\ IF terminate
         THEN /\ s_pc' = "returned"
              /\ s_ret' = YieldResult(sel)
              /\ UNCHANGED <<s_rows, s_ok>>
         ELSE /\ s_pc' = "loop"
              /\ s_ret' = "none"
              /\ s_rows' = RenderRows(line, sel)
              /\ s_ok' = RenderOk(line, s_ok)
    /\ UNCHANGED <<option_multi, size, line, terminate>>

\* getc() returns c: _handle_key, refresh, then the loop test; the call returns
\* when _terminate is set and otherwise renders and blocks in getc() again
SelKey(c) ==
    /\ s_pc = "loop"
    /\ Len(s_keys) < MaxKeys
    /\ LET r == HandleKey(c, line, selected, terminate)
       IN  /\ line' = r.line
           /\ selected' = r.selected
           /\ terminate' = r.terminate
           /\ s_keys' = Append(s_keys, c)
           /\ s_trace' = Append(s_trace, r)
           /\ IF r.terminate
                THEN /\ s_pc' = "returned"
                     /\ s_ret' = YieldResult(r.selected)
                     /\ UNCHANGED <<s_rows, s_ok>>
                ELSE /\ s_pc' = "loop"
                     /\ s_ret' = "none"
                     /\ s_rows' = RenderRows(r.line, r.selected)
                     /\ s_ok' = RenderOk(r.line, s_ok)
    /\ UNCHANGED <<option_multi, size, s_calls>>

(* ================= Tyielder<std::string> (edit strategy) ============== *)

\* the outcomes of std::isprint(ch): defined for EOF and the unsigned char values
\* (the "C" locale's printable range is 32..126); for any other int, such as the
\* ncurses function-key codes above 255, the behaviour is undefined and the
\* call may answer either way
IsPrint(ch) ==
    IF ch >= -1 /\ ch <= 255 THEN {ch >= 32 /\ ch <= 126} ELSE BOOLEAN

\* the char that `*value += ch` appends for an int ch
ToChar(ch) == ch % 256

\* Tyielder<std::string>::proc(ch) on content v, isprint having answered ip:
\* the new content and the Ret
Proc(v, ch, ip) ==
    IF ch = KEY_BACKSPACE
      THEN IF v # <<>>
             THEN [value |-> SubSeq(v, 1, Len(v) - 1), ret |-> "RET_DEL"]
             ELSE [value |-> v, ret |-> "RET_NOP"]
    ELSE IF ip
      THEN [value |-> Append(v, ToChar(ch)), ret |-> "RET_PLUS"]
      ELSE [value |-> v, ret |-> "RET_NOP"]

\* key codes passed to proc
ProcKeys == {KeyNul, KeyCtrlA, KeyTab, KeyEnter, KeyA, KeyB, KEY_LEFT, KEY_BACKSPACE}

\* strings of at most n characters over the letters a, b
RECURSIVE Strings(_)
Strings(n) ==
    IF n = 0 THEN {<<>>}
    ELSE Strings(n - 1)
           \cup {Append(w, ch) : w \in {x \in Strings(n - 1) : Len(x) = n - 1},
                                 ch \in {KeyA, KeyB}}

\* yielder(&s): a strategy bound to a caller's string s
YBound ==
    /\ y_pc = "bound"
    /\ y_value \in Strings(MaxStr)
    /\ y_keys = <<>>
    /\ y_trace = <<y_value>>
    /\ y_rets = <<>>

\* proc(ch)
YProc(ch) ==
    /\ y_pc = "bound"
    /\ Len(y_keys) < MaxProcs
    /\ \E ip \in IsPrint(ch) :
         LET r == Proc(y_value, ch, ip)
         IN  /\ y_value' = r.value
             /\ y_keys' = Append(y_keys, ch)
             /\ y_trace' = Append(y_trace, r.value)
             /\ y_rets' = Append(y_rets, r.ret)
    /\ UNCHANGED y_pc

(* ============================ FieldEditor ============================= *)

\* keys the blocking read hands to the loop of FieldEditor::yield
FieldKeys == {KeyNul, KeyCtrlA, KeyTab, KeyEnter, KeyEscape, KeyA,
              KEY_DOWN, KEY_UP, KEY_LEFT, KEY_BACKSPACE}

\* a faulty _check_movement_input: the Escape case sets _quit only
CheckMovementInput_EscapeQuitsOnly(c, fld, q, e) ==
    IF c = KEY_UP
      THEN [moved |-> TRUE, field |-> IF fld > 0 THEN fld - 1 ELSE fld,
            quit |-> q, escape |-> e]
    ELSE IF c = KEY_DOWN
      THEN [moved |-> TRUE, field |-> IF fld < nfields THEN fld + 1 ELSE fld,
            quit |-> q, escape |-> e]
    ELSE IF c = KeyEnter
      THEN [moved |-> TRUE, field |-> fld,
            quit |-> IF fld = nfields THEN TRUE ELSE q, escape |-> e]
    ELSE IF c = KeyTab
      THEN [moved |-> TRUE, field |-> IF fld = nfields THEN 0 ELSE fld + 1,
            quit |-> q, escape |-> e]
    ELSE IF c = KeyEscape
      THEN [moved |-> TRUE, field |-> fld, quit |-> TRUE, escape |-> e]
      ELSE [moved |-> FALSE, field |-> fld, quit |-> q, escape |-> e]

\* a faulty _check_movement_input: the Tab case never wraps
CheckMovementInput_TabNoWrap(c, fld, q, e) ==
    IF c = KEY_UP
      THEN [moved |-> TRUE, field |-> IF fld > 0 THEN fld - 1 ELSE fld,
            quit |-> q, escape |-> e]
    ELSE IF c = KEY_DOWN
      THEN [moved |-> TRUE, field |-> IF fld < nfields THEN fld + 1 ELSE fld,
            quit |-> q, escape |-> e]
    ELSE IF c = KeyEnter
      THEN [moved |-> TRUE, field |-> fld,
            quit |-> IF fld = nfields THEN TRUE ELSE q, escape |-> e]
    ELSE IF c = KeyTab
      THEN [moved |-> TRUE, field |-> fld + 1, quit |-> q, escape |-> e]
    ELSE IF c = KeyEscape
      THEN [moved |-> TRUE, field |-> fld, quit |-> TRUE, escape |-> TRUE]
      ELSE [moved |-> FALSE, field |-> fld, quit |-> q, escape |-> e]

\* a faulty _check_movement_input: a key that is no movement key clears _quit
CheckMovementInput_ClearsQuit(c, fld, q, e) ==
    IF c = KEY_UP
      THEN [moved |-> TRUE, field |-> IF fld > 0 THEN fld - 1 ELSE fld,
            quit |-> q, escape |-> e]
    ELSE IF c = KEY_DOWN
      THEN [moved |-> TRUE, field |-> IF fld < nfields THEN fld + 1 ELSE fld,
            quit |-> q, escape |-> e]
    ELSE IF c = KeyEnter
      THEN [moved |-> TRUE, field |-> fld,
            quit |-> IF fld = nfields THEN TRUE ELSE q, escape |-> e]
    ELSE IF c = KeyTab
      THEN [moved |-> TRUE, field |-> IF fld = nfields THEN 0 ELSE fld + 1,
            quit |-> q, escape |-> e]
    ELSE IF c = KeyEscape
      THEN [moved |-> TRUE, field |-> fld, quit |-> TRUE, escape |-> TRUE]
      ELSE [moved |-> FALSE, field |-> fld, quit |-> FALSE, escape |-> e]

\* FieldEditor::_check_movement_input(c, field): the value returned, the new
\* field, _quit and _escape
CheckMovementInput(c, fld, q, e) ==
    IF c = KEY_UP
      THEN [moved |-> TRUE, field |-> IF fld > 0 THEN fld - 1 ELSE fld,
            quit |-> q, escape |-> e]
    ELSE IF c = KEY_DOWN
      THEN [moved |-> TRUE, field |-> IF fld < nfields THEN fld + 1 ELSE fld,
            quit |-> q, escape |-> e]
    ELSE IF c = KeyEnter
      THEN [moved |-> TRUE, field |-> fld,
            quit |-> IF fld = nfields THEN TRUE ELSE q, escape |-> e]
    ELSE IF c = KeyTab
      THEN [moved |-> TRUE, field |-> IF fld = nfields THEN 0 ELSE fld + 1,
            quit |-> q, escape |-> e]
    ELSE IF c = KeyEscape
      THEN [moved |-> TRUE, field |-> fld, quit |-> TRUE, escape |-> TRUE]
      ELSE [moved |-> FALSE, field |-> fld, quit |-> q, escape |-> e]

\* FieldEditor::yield's return expression
FieldYieldResult(e) == ~e

\* the test of `while ((c = getc()))`: the loop body runs for c
LoopContinues(c) == c # 0

\* info.width of the editors constructed, and the size of a padded label
\* (the longest field name plus 2)
FieldWidths == {9, 12}

LabelSizes == {3, 5}

\* where _print_ok writes "[ OK ]"
OkRow == f_info.height - 6

OkCol == (f_info.width \div 2) - 4

\* the cursor of _main after _print_ok's mvprintf
PrintOkCursor == [row |-> OkRow, col |-> OkCol + 6]

\* cursor(y, x) with _main's cursor at cur: wmove moves inside the content
\* surface (info.height - 5 rows, info.width - 2 columns) and otherwise fails
\* and leaves the cursor where it is
Cursor(cur, y, x) ==
    IF y >= 0 /\ y < f_info.height - 5 /\ x >= 0 /\ x < f_info.width - 2
      THEN [row |-> y, col |-> x]
      ELSE cur

\* _update_field's offset into content c (0 when it does not scroll)
ScrollOffset(c) ==
    LET l == f_label + 1 + Len(c)
    IN  IF l + 5 > f_info.width THEN (l + 4) - f_info.width ELSE 0

\* std::string::substr(offset) throws std::out_of_range past the end
UpdateThrows(c) == ScrollOffset(c) > Len(c)

\* the substring _update_field prints for content c
UpdateField(c) == SubSeq(c, ScrollOffset(c) + 1, Len(c))

\* the cursor of _main after _update_field printed substring sub on row fld
AfterField(fld, sub) == [row |-> fld, col |-> f_label + 2 + Len(sub)]

\* FieldEditor(title, fnames, info), and the caller's strings bound to yielders
FieldConstructed ==
    /\ f_pc = "constructed"
    /\ nfields \in 0..MaxFields
    /\ quit = FALSE
    /\ escape = FALSE
    /\ field = 0
    /\ value \in [1..nfields -> {<<>>, <<KeyB>>}]
    /\ f_ret = "none"
    /\ f_calls = 0
    /\ f_nkeys = 0
    /\ f_key = <<>>
    /\ f_prev = [field |-> 0, quit |-> FALSE, escape |-> FALSE, value |-> value]
    /\ f_proc = -1
    /\ f_info \in [height : {nfields + 7}, width : FieldWidths]
    /\ f_label \in LabelSizes
    /\ shown = [i \in 1..nfields |-> <<>>]
    /\ f_cursor = PrintOkCursor
    /\ f_curs = 1
    /\ ok_reverse = FALSE
    /\ f_redrawn = {}

\* yield(yielders) is entered: field = 0, every field is updated, the cursor is
\* put after field 0's content (_fields[0] and yielders[0] are read: with no
\* field this reads element 0 of an empty vector and the call does not get
\* further), then the call blocks in getc(); an exception of _update_field
\* leaves the call
FieldYield ==
    /\ f_pc \in {"constructed", "returned"}
    /\ f_calls < MaxYields
    /\ f_calls' = f_calls + 1
    /\ field' = 0
    /\ f_ret' = "none"
    /\ f_key' = <<>>
    /\ f_prev' = [field |-> 0, quit |-> quit, escape |-> escape, value |-> value]
    /\ f_proc' = -1
    /\ IF nfields = 0
         THEN /\ f_pc' = "crashed"
              /\ f_redrawn' = {}
              /\ UNCHANGED <<shown, f_cursor, f_curs>>
         ELSE LET done(i) == \A j \in 1..i : ~UpdateThrows(value[j])
                  last    == Cardinality({i \in 1..nfields : done(i)})
              IN  /\ shown' = [i \in 1..nfields |->
                                 IF done(i) THEN UpdateField(value[i]) ELSE shown[i]]
                  /\ f_redrawn' = {i - 1 : i \in 1..last}
                  /\ IF last = nfields
                       THEN /\ f_pc' = "loop"
                            /\ f_cursor' = Cursor(AfterField(nfields - 1, shown'[nfields]),
                                                  0, f_label + 2 + Len(value[1]))
                            /\ f_curs' = 1
                       ELSE /\ f_pc' = "thrown"
                            /\ f_cursor' = IF last = 0 THEN f_cursor
                                           ELSE AfterField(last - 1, shown'[last])
                            /\ UNCHANGED f_curs
    /\ UNCHANGED <<nfields, quit, escape, value, f_nkeys, f_info, f_label, ok_reverse>>

\* getc() returns c: the loop test, _check_movement_input, the _quit test, the
\* OK / cursor update, and for a key that moved nothing the focused field's
\* proc and, when it reports a change, _update_field; the call returns when the
\* loop is left and otherwise blocks in getc()
FieldKey(c) ==
    /\ f_pc = "loop"
    /\ f_nkeys < MaxFieldKeys
    /\ f_nkeys' = f_nkeys + 1
    /\ f_key' = <<c>>
    /\ f_prev' = [field |-> field, quit |-> quit, escape |-> escape, value |-> value]
    /\ IF ~LoopContinues(c)
         THEN /\ f_pc' = "returned"
              /\ f_ret' = FieldYieldResult(escape)
              /\ f_proc' = -1
              /\ f_curs' = 0
              /\ f_redrawn' = {}
              /\ UNCHANGED <<field, quit, escape, value, shown, f_cursor, ok_reverse>>
         ELSE LET m == CheckMovementInput(c, field, quit, escape)
              IN  /\ field' = m.field
                  /\ quit' = m.quit
                  /\ escape' = m.escape
                  /\ IF m.quit
                       THEN /\ f_pc' = "returned"
                            /\ f_ret' = FieldYieldResult(m.escape)
                            /\ f_proc' = -1
                            /\ f_curs' = 0
                            /\ f_redrawn' = {}
                            /\ UNCHANGED <<value, shown, f_cursor, ok_reverse>>
                     ELSE IF m.field >= nfields
                       THEN /\ f_pc' = "loop"
                            /\ f_ret' = "none"
                            /\ f_proc' = -1
                            /\ f_curs' = 0
                            /\ ok_reverse' = TRUE
                            /\ f_cursor' = PrintOkCursor
                            /\ f_redrawn' = {}
                            /\ UNCHANGED <<value, shown>>
                       ELSE LET at == Cursor(PrintOkCursor, m.field,
                                             f_label + 2 + Len(value[m.field + 1]))
                            IN  /\ f_ret' = "none"
                                /\ f_curs' = 1
                                /\ ok_reverse' = FALSE
                                /\ IF m.moved
                                     THEN /\ f_pc' = "loop"
                                          /\ f_proc' = -1
                                          /\ f_cursor' = at
                                          /\ f_redrawn' = {}
                                          /\ UNCHANGED <<value, shown>>
                                     ELSE \E ip \in IsPrint(c) :
                                            LET r == Proc(value[m.field + 1], c, ip)
                                            IN  /\ f_proc' = m.field
                                                /\ value' = [value EXCEPT ![m.field + 1] = r.value]
                                                /\ IF r.ret = "RET_NOP"
                                                     THEN /\ f_pc' = "loop"
                                                          /\ f_cursor' = at
                                                          /\ f_redrawn' = {}
                                                          /\ UNCHANGED shown
                                                   ELSE IF UpdateThrows(r.value)
                                                     THEN /\ f_pc' = "thrown"
                                                          /\ f_cursor' = at
                                                          /\ f_redrawn' = {}
                                                          /\ UNCHANGED shown
                                                     ELSE /\ f_pc' = "loop"
                                                          /\ shown' = [shown EXCEPT ![m.field + 1] =
                                                                         UpdateField(r.value)]
                                                          /\ f_cursor' = AfterField(m.field,
                                                                                    UpdateField(r.value))
                                                          /\ f_redrawn' = {m.field}
    /\ UNCHANGED <<nfields, f_calls, f_info, f_label>>

(* ============================== Table ================================= *)

\* header lengths and cell base lengths the callers use
HeaderLens == {2, 3}

CellLens == {1, 3}

Generators == {"plain", "wide"}

\* _generator(d, i).length() for column i (1-based here): "plain" renders the
\* cell as it is, "wide" renders it one character longer
Generate(g, d, i) == IF g = "plain" THEN d[i] ELSE d[i] + 1

RECURSIVE MaxCellLen(_, _, _, _)
\* the inner loop of _get_lengths over rows k..Len(dt), starting from l
MaxCellLen(g, dt, i, l) ==
    IF dt = <<>> THEN l
    ELSE LET c == Generate(g, Head(dt), i)
         IN  MaxCellLen(g, Tail(dt), i, IF c > l THEN c ELSE l)

\* Table::_get_lengths: the new _lengths
GetLengths(hs, dt, g) ==
    [i \in 1..Len(hs) |-> MaxCellLen(g, dt, i, hs[i])]

RECURSIVE SumWidth(_)
\* the loop of the constructor's auto resize: sum of l + 3 over _lengths
SumWidth(ls) == IF ls = <<>> THEN 0 ELSE (Head(ls) + 3) + SumWidth(Tail(ls))

\* the size the constructor resizes _main to when From.auto_resize is set
CtorResize(dt, ls) == [h |-> Len(dt) + 4, w |-> 1 + SumWidth(ls)]

\* the size set_data(data, true) resizes _main to
SetDataResize(dt, ls) == [h |-> Len(dt) + 4, w |-> 1]

\* rows of n cells, and data vectors of at most MaxRows rows
Rows(n) == [1..n -> CellLens]

RECURSIVE DataUpTo(_, _)
DataUpTo(n, k) ==
    IF k = 0 THEN {<<>>}
    ELSE DataUpTo(n, k - 1)
           \cup {Append(dt, r) : dt \in {x \in DataUpTo(n, k - 1) : Len(x) = k - 1},
                                 r \in Rows(n)}

\* width vectors a caller passes: one width for all of n - 1, n or n + 1 columns
LengthChoices(n) ==
    {[i \in 1..k |-> v] : k \in {m \in {n - 1, n, n + 1} : m >= 1}, v \in {1, 4}}

\* Table(from, height, width, y, x): the state after construction
TableConstructed ==
    /\ t_pc = "constructed"
    /\ headers \in UNION {[1..n -> HeaderLens] : n \in 0..MaxCols}
    /\ data \in DataUpTo(Len(headers), MaxRows)
    /\ generator \in Generators
    /\ \E fl \in {<<>>} \cup LengthChoices(Len(headers)), ar \in BOOLEAN :
         /\ lengths = IF fl = <<>> THEN GetLengths(headers, data, generator) ELSE fl
         /\ t_supplied = (fl # <<>>)
         /\ t_auto = ar
         /\ main_size = IF ar THEN CtorResize(data, lengths) ELSE [h |-> 10, w |-> 20]
    /\ t_drawn = main_size
    /\ t_op = "ctor"

\* set_data(data, auto_resize)
SetData(dt, ar) ==
    /\ t_pc = "constructed"
    /\ data' = dt
    /\ lengths' = IF ar THEN GetLengths(headers, dt, generator) ELSE lengths
    /\ main_size' = IF ar THEN SetDataResize(dt, lengths') ELSE main_size
    /\ t_drawn' = main_size'
    /\ t_op' = "set_data"
    /\ t_auto' = ar
    /\ UNCHANGED <<t_pc, headers, generator, t_supplied>>

\* set_lengths(lengths)
SetLengths(ls) ==
    /\ t_pc = "constructed"
    /\ lengths' = ls
    /\ t_supplied' = TRUE
    /\ t_drawn' = main_size
    /\ t_op' = "set_lengths"
    /\ t_auto' = FALSE
    /\ UNCHANGED <<t_pc, headers, data, generator, main_size>>

\* set_generator(generator)
SetGenerator(g) ==
    /\ t_pc = "constructed"
    /\ generator' = g
    /\ t_drawn' = main_size
    /\ t_op' = "set_generator"
    /\ t_auto' = FALSE
    /\ UNCHANGED <<t_pc, headers, data, lengths, main_size, t_supplied>>

\* highlight_row(row)
HighlightRow(row) ==
    /\ t_pc = "constructed"
    /\ t_drawn' = main_size
    /\ t_op' = "highlight_row"
    /\ t_auto' = FALSE
    /\ UNCHANGED <<t_pc, headers, data, generator, lengths, main_size, t_supplied>>

(* ======================= layered window stack ========================= *)

\* geometries callers construct layers with, and sizes they resize to
LayerInfos == [height : {4, 8}, width : {10, 12}, y : {0, 2}, x : {1}]

ResizeArgs == [height : {3, 5}, width : {6, 8}]

Geometry(h, w, y, x) == [height |-> h, width |-> w, y |-> y, x |-> x]

\* newwin(h, w, y, x) never succeeds with a negative size: whether it returns
\* a surface (the sizes used here are never 0, which would mean "to the
\* screen's edge")
NewWinOk(g) == g.height > 0 /\ g.width > 0

\* newwin on the surfaces ws: the surfaces afterwards
NewWinTable(ws, g) == IF NewWinOk(g) THEN Append(ws, [geom |-> g, live |-> TRUE]) ELSE ws

\* newwin on the surfaces ws: the handle returned
NewWinHandle(ws, g) == IF NewWinOk(g) THEN Len(ws) + 1 ELSE 0

Call(f, w) == [f |-> f, w |-> w]

\* PlainWindow(height, width, y, x)
PlainCtor(i) ==
    LET g == Geometry(i.height, i.width, i.y, i.x)
    IN  [wins |-> NewWinTable(<<>>, g), main |-> NewWinHandle(<<>>, g),
         box |-> 0, title |-> 0]

\* BoxedWindow(height, width, y, x): the PlainWindow base, then _box and a new _main
BoxedCtor(i) ==
    LET p  == PlainCtor(i)
        gb == Geometry(i.height, i.width, i.y, i.x)
        w1 == NewWinTable(p.wins, gb)
        gm == Geometry(i.height - 2, i.width - 2, i.y + 1, i.x + 1)
    IN  [wins |-> NewWinTable(w1, gm), main |-> NewWinHandle(w1, gm),
         box |-> NewWinHandle(p.wins, gb), title |-> 0]

\* DecoratedWindow(title, height, width, y, x): the BoxedWindow base, then a new
\* _main and _title
DecoratedCtor(i) ==
    LET b  == BoxedCtor(i)
        gm == Geometry(i.height - 5, i.width - 2, i.y + 4, i.x + 1)
        w1 == NewWinTable(b.wins, gm)
        gt == Geometry(3, i.width - 2, i.y + 1, i.x + 1)
    IN  [wins |-> NewWinTable(w1, gt), main |-> NewWinHandle(b.wins, gm),
         box |-> b.box, title |-> NewWinHandle(w1, gt)]

\* a layer after its constructor
LayerConstructed ==
    /\ l_pc = "alive"
    /\ l_kind \in {"plain", "boxed", "decorated"}
    /\ l_info \in LayerInfos
    /\ LET c == IF l_kind = "plain" THEN PlainCtor(l_info)
                ELSE IF l_kind = "boxed" THEN BoxedCtor(l_info)
                ELSE DecoratedCtor(l_info)
       IN  /\ wins = c.wins
           /\ l_main = c.main
           /\ l_box = c.box
           /\ l_title = c.title
    /\ l_op = "ctor"
    /\ l_log = <<>>

\* the calls of PlainWindow::refresh, which BoxedWindow inherits
PlainRefresh == <<Call("wrefresh", l_main)>>

\* the calls of DecoratedWindow::refresh: BoxedWindow::refresh(), then _title
DecoratedRefresh == PlainRefresh \o <<Call("wrefresh", l_title)>>

\* refresh()
LayerRefresh ==
    /\ l_pc = "alive"
    /\ l_op' = "refresh"
    /\ l_log' = IF l_kind = "decorated" THEN DecoratedRefresh ELSE PlainRefresh
    /\ UNCHANGED <<l_pc, l_kind, l_info, wins, l_main, l_box, l_title>>

\* clear(), erase(), and a write (printf, mvprintf, add_char, mvadd_char)
LayerContentOp(op) ==
    /\ l_pc = "alive"
    /\ l_op' = op
    /\ l_log' = IF op = "clear" THEN <<Call("wclear", l_main)>>
                ELSE IF op = "erase" THEN <<Call("werase", l_main)>>
                ELSE <<Call("write", l_main), Call("wrefresh", l_main)>>
    /\ UNCHANGED <<l_pc, l_kind, l_info, wins, l_main, l_box, l_title>>

\* resize(height, width): wresize(_main, height, width)
LayerResize(a) ==
    /\ l_pc = "alive"
    /\ l_op' = "resize"
    /\ l_log' = <<Call("wresize", l_main)>>
    /\ wins' = IF l_main = 0 THEN wins
               ELSE [wins EXCEPT ![l_main].geom.height = a.height,
                                 ![l_main].geom.width = a.width]
    /\ UNCHANGED <<l_pc, l_kind, l_info, l_main, l_box, l_title>>

\* DecoratedWindow::attr_title(attr)
AttrTitle ==
    /\ l_pc = "alive"
    /\ l_kind = "decorated"
    /\ l_op' = "attr_title"
    /\ l_log' = <<Call("wattron", l_title), Call("write", l_title),
                  Call("wattroff", l_title), Call("wrefresh", l_title)>>
    /\ UNCHANGED <<l_pc, l_kind, l_info, wins, l_main, l_box, l_title>>

\* the calls one destructor body makes on its surface w
Teardown(w) == <<Call("werase", w), Call("wrefresh", w), Call("delwin", w)>>

\* the destructor chain: ~DecoratedWindow, ~BoxedWindow, ~PlainWindow
DtorCalls ==
    (IF l_kind = "decorated" THEN Teardown(l_title) ELSE <<>>)
      \o (IF l_kind \in {"boxed", "decorated"} THEN Teardown(l_box) ELSE <<>>)
      \o Teardown(l_main)

\* the layer is destroyed: delwin releases each surface it is called on
LayerDestroy ==
    /\ l_pc = "alive"
    /\ l_pc' = "destroyed"
    /\ l_op' = "dtor"
    /\ l_log' = DtorCalls
    /\ wins' = [h \in 1..Len(wins) |->
                  IF \E n \in 1..Len(DtorCalls) : DtorCalls[n] = Call("delwin", h)
                    THEN [wins[h] EXCEPT !.live = FALSE]
                    ELSE wins[h]]
    /\ UNCHANGED <<l_kind, l_info, l_main, l_box, l_title>>

(* ========================== specifications ============================ *)

SelNone ==
    /\ s_pc = "none"
    /\ option_multi = FALSE
    /\ size = 0
    /\ line = 0
    /\ terminate = FALSE
    /\ selected = {}
    /\ s_ret = "none"
    /\ s_calls = 0
    /\ s_keys = <<>>
    /\ s_trace = <<>>
    /\ s_rows = <<>>
    /\ s_ok = "blank"

FieldNone ==
    /\ f_pc = "none"
    /\ nfields = 0
    /\ quit = FALSE
    /\ escape = FALSE
    /\ field = 0
    /\ value = <<>>
    /\ f_ret = "none"
    /\ f_calls = 0
    /\ f_nkeys = 0
    /\ f_key = <<>>
    /\ f_prev = [field |-> 0, quit |-> FALSE, escape |-> FALSE, value |-> <<>>]
    /\ f_proc = -1
    /\ f_info = [height |-> 0, width |-> 0]
    /\ f_label = 0
    /\ shown = <<>>
    /\ f_cursor = [row |-> 0, col |-> 0]
    /\ f_curs = 1
    /\ ok_reverse = FALSE
    /\ f_redrawn = {}

YNone ==
    /\ y_pc = "none"
    /\ y_value = <<>>
    /\ y_keys = <<>>
    /\ y_trace = <<>>
    /\ y_rets = <<>>

TableNone ==
    /\ t_pc = "none"
    /\ headers = <<>>
    /\ data = <<>>
    /\ generator = "plain"
    /\ lengths = <<>>
    /\ main_size = [h |-> 0, w |-> 0]
    /\ t_supplied = FALSE
    /\ t_op = "none"
    /\ t_auto = FALSE
    /\ t_drawn = [h |-> 0, w |-> 0]

LayerNone ==
    /\ l_pc = "none"
    /\ l_kind = "plain"
    /\ l_info = Geometry(0, 0, 0, 0)
    /\ wins = <<>>
    /\ l_main = 0
    /\ l_box = 0
    /\ l_title = 0
    /\ l_op = "none"
    /\ l_log = <<>>

\* a SelectionWindow and its yield calls
InitSel == SelConstructed /\ FieldNone /\ YNone /\ TableNone /\ LayerNone

NextSel ==
    \/ (\E sel \in SUBSET (0..size) : SelYield(sel)) /\ UNCHANGED <<fvars, yvars, tvars, lvars>>
    \/ (\E c \in SelKeys : SelKey(c)) /\ UNCHANGED <<fvars, yvars, tvars, lvars>>

SpecSel == InitSel /\ [][NextSel]_vars

\* a FieldEditor and its yield calls
InitFE == FieldConstructed /\ SelNone /\ YNone /\ TableNone /\ LayerNone

NextFE ==
    \/ FieldYield /\ UNCHANGED <<svars, yvars, tvars, lvars>>
    \/ (\E c \in FieldKeys : FieldKey(c)) /\ UNCHANGED <<svars, yvars, tvars, lvars>>

SpecFE == InitFE /\ [][NextFE]_vars

\* a string edit strategy and its proc calls
InitYielder == YBound /\ SelNone /\ FieldNone /\ TableNone /\ LayerNone

NextYielder == (\E ch \in ProcKeys : YProc(ch)) /\ UNCHANGED <<svars, fvars, tvars, lvars>>

SpecYielder == InitYielder /\ [][NextYielder]_vars

\* a Table and its mutator calls
InitTable == TableConstructed /\ SelNone /\ FieldNone /\ YNone /\ LayerNone

NextTable ==
    \/ (\E dt \in DataUpTo(Len(headers), MaxRows), ar \in BOOLEAN : SetData(dt, ar))
         /\ UNCHANGED <<svars, fvars, yvars, lvars>>
    \/ (\E ls \in LengthChoices(Len(headers)) : SetLengths(ls))
         /\ UNCHANGED <<svars, fvars, yvars, lvars>>
    \/ (\E g \in Generators : SetGenerator(g))
         /\ UNCHANGED <<svars, fvars, yvars, lvars>>
    \/ (\E row \in -1..(MaxRows - 1) : HighlightRow(row))
         /\ UNCHANGED <<svars, fvars, yvars, lvars>>

SpecTable == InitTable /\ [][NextTable]_vars

\* a plain, boxed or decorated layer and its operations
InitLayer == LayerConstructed /\ SelNone /\ FieldNone /\ YNone /\ TableNone

NextLayer ==
    \/ LayerRefresh /\ UNCHANGED <<svars, fvars, yvars, tvars>>
    \/ (\E op \in {"clear", "erase", "write"} : LayerContentOp(op))
         /\ UNCHANGED <<svars, fvars, yvars, tvars>>
    \/ (\E a \in ResizeArgs : LayerResize(a)) /\ UNCHANGED <<svars, fvars, yvars, tvars>>
    \/ AttrTitle /\ UNCHANGED <<svars, fvars, yvars, tvars>>
    \/ LayerDestroy /\ UNCHANGED <<svars, fvars, yvars, tvars>>

SpecLayer == InitLayer /\ [][NextLayer]_vars

\* either modal loop: a SelectionWindow or a FieldEditor and its yield calls
InitLoops == InitSel \/ InitFE

NextLoops == NextSel \/ NextFE

SpecLoops == InitLoops /\ [][NextLoops]_vars

\* any one of the widgets
Init == InitSel \/ InitFE \/ InitYielder \/ InitTable \/ InitLayer

Next == NextSel \/ NextFE \/ NextYielder \/ NextTable \/ NextLayer

Spec == Init /\ [][Next]_vars
(* ---------------- SelectionWindow: properties ------------------------- *)

\* the set as it was passed to the current yield call
Sel0 == s_trace[1].selected

\* k-th key of the current yield call was Enter pressed on option row i
EnterOn(k, i) ==
    /\ s_keys[k] = KeyEnter
    /\ s_trace[k].line = i
    /\ i < size

\* indices on which Enter was pressed an odd number of times in this call
OddEntered ==
    {i \in 0..(size - 1) :
        Cardinality({k \in 1..Len(s_keys) : EnterOn(k, i)}) % 2 = 1}

Flip(S, T) == (S \ T) \cup (T \ S)

\* a key after which the loop of SelectionWindow::yield stops, by the documented rule
SelEnds(k) ==
    \/ s_keys[k] = KeyEscape
    \/ s_keys[k] = KeyEnter /\ ~option_multi
    \/ s_keys[k] = KeyEnter /\ option_multi /\ s_trace[k].line = size

\* C1 (as stated): _line stays in [0, N-1] in single-select mode and in [0, N] in
\* multi-select mode, and Up / Down move it by exactly one step except at an end
\* of that range, where it stays.
C1_HighlightInRange ==
    (s_pc \in {"loop", "returned"} /\ Len(s_keys) >= 1) =>
        /\ 0 <= line
        /\ line <= (IF option_multi THEN size ELSE size - 1)
        /\ \A k \in 1..Len(s_keys) :
             LET lo == 0
                 hi == IF option_multi THEN size ELSE size - 1
                 b  == s_trace[k].line
                 a  == s_trace[k + 1].line
             IN  /\ s_keys[k] = KEY_UP => a = (IF b = lo THEN b ELSE b - 1)
                 /\ s_keys[k] = KEY_DOWN => a = (IF b = hi THEN b ELSE b + 1)

\* C2: in multi-select mode Enter on an option row i < N toggles i in selected and
\* changes neither _line nor _terminate nor any other member; two Enters in a row
\* on the same row restore selected; and selected always equals the set passed in
\* with exactly the rows flipped on which Enter was pressed an odd number of
\* times (options [A,B], keys Enter Down Enter Down Enter end with {0,1}).
C2_EnterToggles ==
    (option_multi /\ s_pc \in {"loop", "returned"}) =>
        /\ \A k \in 1..Len(s_keys) :
             (s_keys[k] = KeyEnter /\ s_trace[k].line < size) =>
                 /\ s_trace[k + 1].selected
                      = Flip(s_trace[k].selected, {s_trace[k].line})
                 /\ s_trace[k + 1].line = s_trace[k].line
                 /\ s_trace[k + 1].terminate = s_trace[k].terminate
        /\ \A k \in 2..Len(s_keys) :
             (/\ s_keys[k - 1] = KeyEnter
              /\ s_keys[k] = KeyEnter
              /\ s_trace[k].line < size) =>
                 s_trace[k + 1].selected = s_trace[k - 1].selected
        /\ selected = Flip(Sel0, OddEntered)
        /\ (/\ size = 2
            /\ Sel0 = {}
            /\ s_keys = <<KeyEnter, KEY_DOWN, KeyEnter, KEY_DOWN, KeyEnter>>) =>
                (s_pc = "returned" /\ selected = {0, 1})

\* C2 witness: the scenario's last Enter, on OK, has ended the loop with {0,1}
C2_Witness ==
    /\ option_multi
    /\ size = 2
    /\ s_keys = <<KeyEnter, KEY_DOWN, KeyEnter, KEY_DOWN, KeyEnter>>
    /\ Sel0 = {}
    /\ s_pc = "returned"
    /\ selected = {0, 1}

\* C3: the loop of yield stops after a key exactly when that key is Escape, Enter
\* in single-select mode (which first inserts _line into selected), or Enter on
\* the OK position in multi-select mode; after every other key it reads again.
\* Down Down Enter on three options adds index 2 to the set passed in.
C3_TerminatesExactlyOn ==
    s_pc \in {"loop", "returned"} =>
        /\ \A k \in 1..Len(s_keys) :
             /\ s_trace[k].terminate = FALSE
             /\ s_trace[k + 1].terminate = SelEnds(k)
             /\ (s_keys[k] = KeyEnter /\ ~option_multi) =>
                    s_trace[k + 1].selected
                      = s_trace[k].selected \cup {s_trace[k].line}
        /\ (s_pc = "loop") = ~terminate
        /\ (s_pc = "returned") = terminate
        /\ (/\ ~option_multi
            /\ size = 3
            /\ s_keys = <<KEY_DOWN, KEY_DOWN, KeyEnter>>) =>
                (s_pc = "returned" /\ selected = Sel0 \cup {2})

\* C3 witness: Down Down Enter on three options, from the empty set, gave {2}
C3_Witness ==
    /\ ~option_multi
    /\ size = 3
    /\ s_keys = <<KEY_DOWN, KEY_DOWN, KeyEnter>>
    /\ Sel0 = {}
    /\ s_pc = "returned"
    /\ selected = {2}
    /\ s_ret = TRUE

\* C4: whenever yield has returned, the value returned is true iff selected is
\* non-empty; Escape and Enter-on-OK leave selected as it was before that key,
\* so toggles made before Escape stay and decide the returned value.
C4_ReturnIffNonEmpty ==
    s_pc = "returned" =>
        /\ s_ret = (selected # {})
        /\ \A k \in 1..Len(s_keys) :
             (\/ s_keys[k] = KeyEscape
              \/ s_keys[k] = KeyEnter /\ option_multi /\ s_trace[k].line = size) =>
                 /\ k = Len(s_keys)
                 /\ s_trace[k + 1].selected = s_trace[k].selected
                 /\ selected = s_trace[k].selected
        /\ option_multi => (s_ret = (Flip(Sel0, OddEntered) # {}))

\* C4 witness: a toggle, then Escape: the toggle is kept and yield returns true
C4_Witness ==
    /\ option_multi
    /\ s_pc = "returned"
    /\ s_keys = <<KeyEnter, KeyEscape>>
    /\ Sel0 = {}
    /\ selected = {0}
    /\ s_ret = TRUE

(* ------------------- FieldEditor: properties -------------------------- *)

\* the last key read by the current call was k
LastKey(k) == f_key = <<k>>

\* the last key read was Enter, read while the focus was on OK
EndedOnEnterOK == LastKey(KeyEnter) /\ f_prev.field = nfields

\* C5: a yield call whose loop ends on Escape returns false, and one whose loop
\* ends on Enter read while the focus is on OK returns true, whatever came before
\* (earlier keys, edits, an earlier yield call on the same instance).
C5_EscapeFalseEnterOkTrue ==
    f_pc = "returned" =>
        /\ LastKey(KeyEscape) => f_ret = FALSE
        /\ EndedOnEnterOK => f_ret = TRUE

\* C5 witness: after some keys Enter is read on OK and the call has returned true
C5_Witness ==
    /\ f_pc = "returned"
    /\ nfields = 2
    /\ f_nkeys >= 3
    /\ EndedOnEnterOK
    /\ f_ret = TRUE

\* C6: the focus index stays in [0, fields.length]; Up decrements it only when it
\* is > 0, Down increments it only when it is < fields.length, Tab increments it
\* and wraps from OK to field 0, and no other key changes it.
C6_FocusInRange ==
    f_pc \in {"loop", "returned"} =>
        /\ 0 <= field
        /\ field <= nfields
        /\ f_key # <<>> =>
             LET b == f_prev.field
             IN  field =
                   IF LastKey(KEY_UP) THEN (IF b > 0 THEN b - 1 ELSE b)
                   ELSE IF LastKey(KEY_DOWN) THEN (IF b < nfields THEN b + 1 ELSE b)
                   ELSE IF LastKey(KeyTab) THEN (IF b = nfields THEN 0 ELSE b + 1)
                   ELSE b

\* C6 witness: Tab read on OK has put the focus back on field 0
C6_Witness ==
    /\ f_pc = "loop"
    /\ nfields = 2
    /\ LastKey(KeyTab)
    /\ f_prev.field = nfields
    /\ field = 0

\* C7 (as stated, for an instance's first yield call): the loop is left only on
\* Enter read on OK or on Escape; after any other key it reads another key.
C7_LeavesOnlyOnEnterOkOrEscape ==
    (f_calls = 1 /\ f_key # <<>>) =>
        ((f_pc = "returned") = (LastKey(KeyEscape) \/ EndedOnEnterOK))

(* -------------- Tyielder<std::string>: properties --------------------- *)

Printable(k) == k >= 32 /\ k <= 126

MaxOver(S) == CHOOSE y \in S : \A z \in S : y >= z

\* column i's width by the documented rule

DocumentedWidth(i) ==
    MaxOver({headers[i]} \cup {Generate(generator, data[n], i) : n \in 1..Len(data)})

\* C9 (as stated): for a Table whose widths the caller never supplied, after
\* construction and after any set_data, set_generator and highlight_row calls,
\* _lengths[i] is the larger of header i's length and the longest generated
\* cell of column i in the current data.
C9_WidthsAreColumnMaxima ==
    (t_pc = "constructed" /\ ~t_supplied) =>
        /\ Len(lengths) = Len(headers)
        /\ \A i \in 1..Len(headers) : lengths[i] = DocumentedWidth(i)

\* C10 (as stated): whenever the table is drawn with auto resize requested, by
\* the constructor and by set_data(data, true) alike, _main has been resized to
\* height rows + 4 and width 1 + sum of (width + 3) over the columns.
C10_AutoResizeFits ==
    (t_pc = "constructed" /\ t_auto /\ t_op \in {"ctor", "set_data"}) =>
        /\ t_drawn.h = Len(data) + 4
        /\ t_drawn.w = 1 + SumWidth(lengths)

\* C13: after construction, with computed or with supplied widths, and after
\* any sequence of set_lengths, set_data, set_generator and highlight_row
\* calls, a Table holds one column width per header.
C13_OneWidthPerHeader ==
    t_pc = "constructed" => Len(lengths) = Len(headers)

(* ------------------------------ layers -------------------------------- *)

\* the positions in the last operation's calls where f is called on surface h
CallsOf(f, h) == {n \in 1..Len(l_log) : l_log[n] = Call(f, h)}

\* surface h was erased and then destroyed, exactly once
ReleasedOnce(h) ==
    /\ Cardinality(CallsOf("delwin", h)) = 1
    /\ \E e \in CallsOf("werase", h) : \A d \in CallsOf("delwin", h) : e < d

\* surface a is destroyed before surface b
DestroyedBefore(a, b) ==
    \A m \in CallsOf("delwin", a) : \A n \in CallsOf("delwin", b) : m < n

\* C11: after a layer's teardown every surface its construction created has
\* been erased and then destroyed exactly once, title before box before
\* content, and none of them is still allocated.
C11_SurfacesReleasedOnce ==
    l_pc = "destroyed" =>
        /\ \A h \in 1..Len(wins) : ReleasedOnce(h) /\ ~wins[h].live
        /\ (l_title # 0 /\ l_box # 0) => DestroyedBefore(l_title, l_box)
        /\ (l_box # 0 /\ l_main # 0) => DestroyedBefore(l_box, l_main)

\* the content geometry the layer's kind derives from its geometry
DerivedContent ==
    IF l_kind = "boxed"
      THEN Geometry(l_info.height - 2, l_info.width - 2, l_info.y + 1, l_info.x + 1)
      ELSE IF l_kind = "decorated"
        THEN Geometry(l_info.height - 5, l_info.width - 2, l_info.y + 4, l_info.x + 1)
        ELSE Geometry(l_info.height, l_info.width, l_info.y, l_info.x)

\* C12: in every state of a living boxed or decorated layer that has a content
\* surface, that surface has the geometry derived from the layer's geometry,
\* and a decorated layer's title surface is at (3, w-2, y+1, x+1).
C12_ContentGeometryDerived ==
    (l_pc = "alive" /\ l_kind \in {"boxed", "decorated"} /\ l_main # 0) =>
        /\ wins[l_main].geom = DerivedContent
        /\ (l_kind = "decorated" /\ l_title # 0) =>
              wins[l_title].geom
                = Geometry(3, l_info.width - 2, l_info.y + 1, l_info.x + 1)

\* C18: refresh() on a decorated layer (one with room for its content
\* surface) refreshes the content surface, then the box surface, then the
\* title surface.
C18_RefreshContentBoxTitle ==
    (l_pc = "alive" /\ l_kind = "decorated" /\ l_main # 0 /\ l_op = "refresh") =>
        l_log = <<Call("wrefresh", l_main), Call("wrefresh", l_box),
                  Call("wrefresh", l_title)>>

(* --------------------------- construction ----------------------------- *)

\* a decorated layer's geometry leaves room for the border and the title band
RoomForDecoration == l_info.height - 5 > 0 /\ l_info.width - 2 > 0

\* C14: no constructor returns a widget for a misuse: no decorated layer
\* without room for its border and title band, no Table constructed with a
\* number of supplied widths other than its number of headers, no multi-select
\* SelectionWindow without options.
C14_MisuseRejected ==
    /\ ~(l_pc = "alive" /\ l_op = "ctor" /\ l_kind = "decorated" /\ ~RoomForDecoration)
    /\ ~(t_pc = "constructed" /\ t_op = "ctor" /\ t_supplied
           /\ Len(lengths) # Len(headers))
    /\ ~(s_pc = "constructed" /\ s_calls = 0 /\ option_multi /\ size = 0)

(* ------------------------ FieldEditor display ------------------------- *)

MovementKey(c) == c \in {KEY_UP, KEY_DOWN, KeyEnter, KeyTab, KeyEscape}

\* C15: a key read by the loop that is no movement key, with the focus on field
\* i, is passed to field i's strategy and to no other, leaves the focus and
\* every other field's content as they were, and field i's line alone is
\* redrawn, exactly when the content changed; a key read on OK and every
\* movement key is passed to no strategy.
C15_KeyGoesToFocusedField ==
    f_key # <<>> =>
        LET c == f_key[1]
            i == f_prev.field
        IN  IF ~MovementKey(c) /\ i < nfields
              THEN /\ f_proc = i
                   /\ field = i
                   /\ \A j \in 1..nfields : j # i + 1 => value[j] = f_prev.value[j]
                   /\ f_redrawn \subseteq {i}
                   /\ (f_redrawn = {i}) <=> (value[i + 1] # f_prev.value[i + 1])
              ELSE f_proc = -1

\* s is the suffix of c of its length
IsSuffix(s, c) == Len(s) <= Len(c) /\ s = SubSeq(c, Len(c) - Len(s) + 1, Len(c))

\* the line of a field showing s: padded label, two spaces, s
Rendered(s) == f_label + 2 + Len(s)

\* C16: every redraw of a field completes, and the content it shows is a
\* suffix of the field's content: all of it when the line then leaves the
\* cell after its last character inside the content surface (info.width - 2
\* columns), and otherwise the suffix with which the line just does.
C16_ShownIsSuffixWindow ==
    /\ f_pc # "thrown"
    /\ \A i \in f_redrawn :
         LET c == value[i + 1]
             s == shown[i + 1]
         IN  /\ IsSuffix(s, c)
             /\ Rendered(s) < f_info.width - 2
             /\ IF Rendered(c) < f_info.width - 2
                  THEN s = c
                  ELSE Rendered(s) = f_info.width - 3

\* C17: at every key read of the loop, with the focus on OK the cursor is
\* hidden and OK is inverse-video; otherwise the cursor is visible, OK is
\* normal and the cursor is on the focused row just after the content shown.
C17_CursorAndOkFollowFocus ==
    f_pc = "loop" =>
        IF field = nfields
          THEN f_curs = 0 /\ ok_reverse
          ELSE /\ f_curs = 1
               /\ ~ok_reverse
               /\ f_cursor = [row |-> field, col |-> Rendered(shown[field + 1])]

(* --------------------------- both loops ------------------------------- *)

\* s is the display window of content c: the whole content when the line
\* then leaves the cursor cell inside the content surface, and otherwise the
\* suffix with which it just does
DisplayWindow(s, c) ==
    /\ IsSuffix(s, c)
    /\ IF Rendered(c) < f_info.width - 2
         THEN s = c
         ELSE Rendered(s) = f_info.width - 3

\* C19: at each key read of the Selection loop every option row is drawn,
\* inverse-video exactly when it is hovered or selected, and in multi mode OK
\* is drawn, inverse-video exactly when it is hovered; at each key read of the
\* FieldEditor loop every field line shows the display window of the field's
\* current content.
C19_DrawnBeforeKeyRead ==
    /\ s_pc = "loop" =>
         /\ \A i \in 0..(size - 1) :
              s_rows[i + 1] = IF i = line \/ i \in selected THEN "reverse" ELSE "normal"
         /\ option_multi => s_ok = IF line = size THEN "reverse" ELSE "normal"
    /\ f_pc = "loop" =>
         \A i \in 1..nfields : DisplayWindow(shown[i], value[i])

\* C19 witness: the Selection loop waits for a key with row 0 selected and
\* row 1 hovered, both inverse-video, row 2 and OK normal
C19_Witness ==
    /\ s_pc = "loop"
    /\ option_multi
    /\ size = 3
    /\ s_keys = <<KeyEnter, KEY_DOWN>>
    /\ selected = {0}
    /\ line = 1
    /\ s_rows = <<"reverse", "reverse", "normal">>
    /\ s_ok = "normal"

\* no step clears _terminate, _quit or _escape
FlagsOnlySet ==
    /\ terminate => terminate'
    /\ quit => quit'
    /\ escape => escape'

\* a yield entered with _terminate set has returned without a key, with _line
\* and the caller's set as they were at its entry
SelAfterTerminated ==
    (s_calls >= 1 /\ s_trace[1].terminate) =>
        /\ s_pc = "returned"
        /\ s_keys = <<>>
        /\ line = s_trace[1].line
        /\ selected = s_trace[1].selected

\* a yield entered with _quit set waits for its one key and has returned after
\* it, and the key went to no strategy and changed no content
FieldAfterTerminated ==
    (f_pc \in {"loop", "returned"} /\ f_prev.quit) =>
        /\ f_pc = IF f_key = <<>> THEN "loop" ELSE "returned"
        /\ f_proc = -1
        /\ value = f_prev.value

\* C20: _terminate, _quit and _escape are never cleared, and a yield on an
\* instance whose flag is set toggles no selection, moves no highlight and
\* dispatches no key: SelectionWindow::yield returns without reading a key,
\* FieldEditor::yield returns after reading exactly one.
C20_TerminatedIsTerminal ==
    /\ [][FlagsOnlySet]_vars
    /\ [](SelAfterTerminated /\ FieldAfterTerminated)

\* C20 witness: a second yield of an editor left by Escape has read the key
\* 'a', passed it to no strategy and returned
C20_Witness ==
    /\ f_calls = 2
    /\ f_pc = "returned"
    /\ f_key = <<KeyA>>
    /\ quit
    /\ escape
    /\ f_prev.quit
    /\ f_proc = -1
    /\ f_ret = FALSE

====
